---- MODULE Spec2Model ----
(***************************************************************************)
(* Model of the compass view of src/src/App.tsx: the heading estimator     *)
(* (startOrientation, handleOrientation, updateHeading, the onCleanup      *)
(* callback), the location search (requestLocation, fallbackToDefault,     *)
(* searchAround, fetchBuildings) and the radial layout (bearingBetween,    *)
(* beadings, beadingRanks, the two marker callbacks).                      *)
(*                                                                         *)
(* Numbers.  Angles are whole degrees.  Math.sin and Math.cos are a table  *)
(* of the sine scaled by TrigScale; Math.atan2 is the whole degree whose   *)
(* direction is nearest to (x, y).  An optional value (number | null) is a *)
(* sequence of length 0 or 1.                                              *)
(***************************************************************************)
EXTENDS Integers, Sequences, FiniteSets

\* ---------------------------------------------------------------- bounds
\* SpecHeading: the pushes followed after each start, the samples and the
\* startOrientation calls.  SpecSearch: the requestLocation calls.  Spec: the
\* events of a behaviour.
MaxPushes == 14
MaxSamples == 2
MaxStarts == 2
MaxRequests == 2
MaxEvents == 7

\* ------------------------------------------------------------- optionals
None == <<>>
Some(v) == <<v>>
IsSome(o) == Len(o) = 1
Get(o) == o[1]

\* ------------------------------------------------------------ arithmetic
Abs(n) == IF n < 0 THEN -n ELSE n

\* The % of the source language: the remainder has the sign of the dividend.
JsRem(a, n) == IF a >= 0 THEN a % n ELSE -((-a) % n)

TrigScale == 10000

\* round(TrigScale * sin(d degrees)) for d = 0..90, at index d + 1.
SinTab ==
  << 0, 175, 349, 523, 698, 872, 1045, 1219, 1392, 1564,
     1736, 1908, 2079, 2250, 2419, 2588, 2756, 2924, 3090, 3256,
     3420, 3584, 3746, 3907, 4067, 4226, 4384, 4540, 4695, 4848,
     5000, 5150, 5299, 5446, 5592, 5736, 5878, 6018, 6157, 6293,
     6428, 6561, 6691, 6820, 6947, 7071, 7193, 7314, 7431, 7547,
     7660, 7771, 7880, 7986, 8090, 8192, 8290, 8387, 8480, 8572,
     8660, 8746, 8829, 8910, 8988, 9063, 9135, 9205, 9272, 9336,
     9397, 9455, 9511, 9563, 9613, 9659, 9703, 9744, 9781, 9816,
     9848, 9877, 9903, 9925, 9945, 9962, 9976, 9986, 9994, 9998,
     10000 >>

\* Math.sin((deg * Math.PI) / 180), scaled by TrigScale.
Sin(deg) ==
  LET d == deg % 360
  IN  IF d <= 90 THEN SinTab[d + 1]
      ELSE IF d <= 180 THEN SinTab[180 - d + 1]
      ELSE IF d <= 270 THEN -SinTab[d - 180 + 1]
      ELSE -SinTab[360 - d + 1]

\* Math.cos((deg * Math.PI) / 180), scaled by TrigScale.
Cos(deg) == Sin(deg + 90)

\* The angle in 0..90 of the direction (ax, ay), ax >= 0, ay >= 0, not both
\* 0, to the nearest whole degree.  The cross product of the direction with
\* the direction of d degrees falls as d grows: the angle lies between the
\* last degree where it is positive and the next one.
QuadrantAngle(ay, ax) ==
  LET cross(d) == ay * Cos(d) - ax * Sin(d)
      above == CHOOSE d \in 0..90 : cross(d) <= 0 /\ (d = 0 \/ cross(d - 1) > 0)
  IN  IF above > 0 /\ cross(above - 1) <= -cross(above) THEN above - 1 ELSE above

\* Math.atan2(y, x) in whole degrees, in -180..180; atan2(0, 0) is 0.
Atan2Deg(y, x) ==
  IF x = 0 /\ y = 0 THEN 0
  ELSE LET q == QuadrantAngle(Abs(y), Abs(x))
       IN  IF x >= 0 THEN (IF y >= 0 THEN q ELSE -q)
           ELSE (IF y >= 0 THEN 180 - q ELSE q - 180)

\* ------------------------------------------------------------- variables
VARIABLES
  env,                \* the platform: what it supports and requires
  budget,             \* how many more events of each kind the model follows
  orientationError,   \* signal orientationError
  orientationActive,  \* let orientationActive
  headingAnimationId, \* let headingAnimationId: the run whose handle it holds
  headingHistory,     \* const headingHistory
  heading,            \* signal heading
  rawHeading,         \* signal rawHeading
  pendingStarts,      \* startOrientation calls suspended at requestPermission()
  runs,               \* startOrientation calls that went on to listen
  listeners,          \* the runs whose handleOrientation is registered
  cleanups,           \* the runs whose callback is registered with onCleanup
  rafPending,         \* the runs whose updateHeading has a callback scheduled
  pushed,             \* history: every value pushed since headingHistory was last cleared
  rawFresh,           \* history: a sample arrived since headingHistory was last cleared
  error,              \* signal error
  buildings,          \* signal buildings
  coords,             \* signal coords
  hasSearched,        \* signal hasSearched
  geoPending,         \* getCurrentPosition calls not yet answered
  fetches,            \* fetchBuildings calls not yet answered, in issue order
  buildingsFrom,      \* history: the coordinate whose fetch answered with buildings
  beadings,           \* memo beadings
  beadingRanks,       \* memo beadingRanks
  markers,            \* the building markers the <For> has created
  probe               \* one evaluation of the two relative-angle callbacks

orientVars ==
  << orientationError, orientationActive, headingAnimationId, headingHistory,
     heading, rawHeading, pendingStarts, runs, listeners, cleanups, rafPending,
     pushed, rawFresh >>

searchVars ==
  << error, buildings, coords, hasSearched, geoPending, fetches, buildingsFrom,
     beadings, beadingRanks, markers >>

vars == << env, budget, orientVars, searchVars, probe >>

\* ------------------------------------------------------ heading estimator
headingHistorySize == 12

\* The events the orientation sensor delivers: webkitCompassHeading (absent
\* on most platforms) and alpha (null when the sensor has no reading).
OrientationEvents ==
  { [compass |-> None, alpha |-> None],
    [compass |-> Some(350), alpha |-> None],
    [compass |-> Some(10), alpha |-> Some(120)],
    [compass |-> None, alpha |-> Some(170)] }

\* handleOrientation: the value of an event, None when it has none.
OrientationValue(event) ==
  IF IsSome(event.compass) THEN event.compass
  ELSE IF event.alpha = None THEN None
  ELSE Some(JsRem(360 - Get(event.alpha) + 360, 360))

\* startOrientation from "orientationActive = true" to its end, as run
\* number runs + 1: clear the history, register this run's listener,
\* schedule this run's updateHeading, register this run's cleanup callback.
Listen ==
  /\ orientationActive' = TRUE
  /\ headingHistory' = << >>
  /\ runs' = runs + 1
  /\ listeners' = listeners \cup {runs + 1}
  /\ rafPending' = rafPending \cup {runs + 1}
  /\ headingAnimationId' = Some(runs + 1)
  /\ cleanups' = cleanups \cup {runs + 1}
  /\ pushed' = << >>
  /\ rawFresh' = FALSE

\* startOrientation sets the error flag and goes on to listen.
FallThroughWith(message) ==
  /\ orientationError' = message
  /\ Listen
  /\ UNCHANGED pendingStarts

\* startOrientation returns before it listens: nothing but the error flag
\* is written.
ReturnWith(message) ==
  /\ orientationError' = message
  /\ UNCHANGED << orientationActive, headingAnimationId, headingHistory,
                  pendingStarts, runs, listeners, cleanups, rafPending, pushed,
                  rawFresh >>

\* startOrientation up to its first suspension or return.
startOrientation ==
  /\ IF ~env.orientation THEN ReturnWith("unsupported")
     ELSE IF orientationActive THEN ReturnWith("")
     ELSE IF env.needsPermission
       THEN /\ orientationError' = ""
            /\ pendingStarts' = pendingStarts + 1
            /\ UNCHANGED << orientationActive, headingAnimationId, headingHistory,
                            runs, listeners, cleanups, rafPending, pushed, rawFresh >>
     ELSE /\ orientationError' = ""
          /\ Listen
          /\ UNCHANGED pendingStarts
  /\ UNCHANGED << env, heading, rawHeading, searchVars, probe >>

\* requestPermission() answers 'granted': the rest of startOrientation.
permissionGranted ==
  /\ pendingStarts > 0
  /\ pendingStarts' = pendingStarts - 1
  /\ Listen
  /\ UNCHANGED << env, orientationError, heading, rawHeading, searchVars, probe >>

\* requestPermission() answers 'denied'.
permissionDenied ==
  /\ pendingStarts > 0
  /\ pendingStarts' = pendingStarts - 1
  /\ orientationError' = "denied"
  /\ UNCHANGED << env, orientationActive, headingAnimationId, headingHistory,
                  heading, rawHeading, runs, listeners, cleanups, rafPending,
                  pushed, rawFresh, searchVars, probe >>

\* handleOrientation without its "heading() === null" test.
FirstHeadingAlways(old, value) == value

\* What handleOrientation does to the heading signal on a value.
FirstHeading(old, value) == IF old = None THEN value ELSE old

\* The sensor delivers an event: every registered listener runs
\* handleOrientation on it (the listeners are copies of one function, and a
\* second run on the same event changes nothing).
handleOrientation(event) ==
  /\ listeners # {}
  /\ LET value == OrientationValue(event)
     IN  IF value = None
           THEN UNCHANGED << rawHeading, heading, orientationError, rawFresh >>
           ELSE /\ rawHeading' = value
                /\ heading' = FirstHeading(heading, value)
                /\ orientationError' = ""
                /\ rawFresh' = TRUE
  /\ UNCHANGED << env, orientationActive, headingAnimationId, headingHistory,
                  pendingStarts, runs, listeners, cleanups, rafPending, pushed,
                  searchVars, probe >>

\* push(value) without the shift().
PushUnbounded(history, value) == Append(history, value)

\* headingHistory.push(value), then shift() past headingHistorySize.
PushBounded(history, value) ==
  LET longer == Append(history, value)
  IN  IF Len(longer) > headingHistorySize THEN Tail(longer) ELSE longer

RECURSIVE SinSum(_)
SinSum(history) ==
  IF history = << >> THEN 0 ELSE Sin(Head(history)) + SinSum(Tail(history))

RECURSIVE CosSum(_)
CosSum(history) ==
  IF history = << >> THEN 0 ELSE Cos(Head(history)) + CosSum(Tail(history))

\* Both sums are 0 only when the samples cancel exactly; the floating-point
\* sums then hold rounding residue, and its direction is what atan2 sees.
ResidueDirections == { -90, 0, 180 }

RECURSIVE DegreeSum(_)
DegreeSum(history) ==
  IF history = << >> THEN 0 ELSE Head(history) + DegreeSum(Tail(history))

\* The arithmetic mean of the degrees in place of the direction of the sums.
LinearMean(history) == { DegreeSum(history) \div Len(history) }

\* Math.atan2(sinSum / length, cosSum / length) in whole degrees.  The two
\* means share the positive denominator length, which atan2 does not see.
MeanDirections(history) ==
  LET sinSum == SinSum(history)
      cosSum == CosSum(history)
  IN  IF sinSum = 0 /\ cosSum = 0 THEN ResidueDirections
      ELSE { Atan2Deg(sinSum, cosSum) }

\* ((avg * 180) / Math.PI + 360) % 360
NormalizeHeading(avg) == JsRem(avg + 360, 360)

\* One run of the scheduled updateHeading callback of a run of
\* startOrientation; it schedules itself again.
updateHeading(run) ==
  /\ run \in rafPending
  /\ IF rawHeading # None
       THEN /\ headingHistory' = PushBounded(headingHistory, Get(rawHeading))
            /\ pushed' = Append(pushed, Get(rawHeading))
            /\ \E avg \in MeanDirections(headingHistory') :
                 heading' = Some(NormalizeHeading(avg))
       ELSE UNCHANGED << headingHistory, pushed, heading >>
  /\ headingAnimationId' = Some(run)
  /\ UNCHANGED << env, orientationError, orientationActive, rawHeading, pendingStarts,
                  runs, listeners, cleanups, rafPending, rawFresh, searchVars, probe >>

\* The callbacks that cancelAnimationFrame(headingAnimationId) leaves scheduled.
CancelFrame(pending, id) == IF id = None THEN pending ELSE pending \ {Get(id)}

\* The view is torn down: every callback registered with onCleanup runs.
\* Each removes its own listener and clears orientationActive; the first
\* cancels the callback headingAnimationId names, the others find it null.
teardown ==
  /\ cleanups # {}
  /\ listeners' = listeners \ cleanups
  /\ orientationActive' = FALSE
  /\ rafPending' = CancelFrame(rafPending, headingAnimationId)
  /\ headingAnimationId' = None
  /\ cleanups' = {}
  /\ UNCHANGED << env, orientationError, headingHistory, heading, rawHeading,
                  pendingStarts, runs, pushed, rawFresh, searchVars, probe >>

\* ---------------------------------------------------------------- geodesy
\* const fallbackCoords, to the whole degree.
fallbackCoords == [lat |-> 36, lng |-> 140]

\* The positions the platform's geolocation reports.
Positions == { [lat |-> 35, lng |-> 139], [lat |-> 36, lng |-> 141] }

\* bearingBetween(from, to), in 0..359.  y and x are kept at TrigScale.
bearingBetween(from, to) ==
  LET lat1 == from.lat
      lat2 == to.lat
      deltaLng == to.lng - from.lng
      y == (Sin(deltaLng) * Cos(lat2)) \div TrigScale
      x == (Cos(lat1) * Sin(lat2)
              - ((Sin(lat1) * Cos(lat2)) \div TrigScale) * Cos(deltaLng)) \div TrigScale
      brng == Atan2Deg(y, x)
  IN  JsRem(brng + 360, 360)

\* ----------------------------------------------------------- radial layout
\* The label the backend gives a building that has no name of its own.
Placeholder == "yes"

\* The building lists /api/buildings answers with.
BuildingLists ==
  { << >>,
    << [id |-> 1, label |-> "yes", lat |-> 37, lng |-> 141],
       [id |-> 2, label |-> "Cafe", lat |-> 36, lng |-> 141],
       [id |-> 3, label |-> "Tower", lat |-> 37, lng |-> 139] >>,
    << [id |-> 6, label |-> "Station", lat |-> 36, lng |-> 140],
       [id |-> 1, label |-> "yes", lat |-> 37, lng |-> 141] >>,
    << [id |-> 2, label |-> "Cafe", lat |-> 36, lng |-> 141],
       [id |-> 5, label |-> "Annex", lat |-> 36, lng |-> 141] >> }

\* memo beadings: the bearing of every building, null while coords is null.
BeadingsOf(list, origin) ==
  [i \in 1..Len(list) |->
     IF origin = None THEN None
     ELSE Some(bearingBetween(Get(origin), [lat |-> list[i].lat, lng |-> list[i].lng]))]

\* The number a null or a bearing is in "a! - b!".
SortKey(o) == IF o = None THEN 0 ELSE Get(o)

\* Insert o into the ascending sequence, after the entries that compare equal.
RECURSIVE InsertSorted(_, _)
InsertSorted(sorted, o) ==
  IF sorted = << >> THEN << o >>
  ELSE IF SortKey(o) < SortKey(Head(sorted)) THEN << o >> \o sorted
  ELSE << Head(sorted) >> \o InsertSorted(Tail(sorted), o)

\* [...bearings].sort((a, b) => a! - b!)
RECURSIVE SortAscending(_)
SortAscending(bearings) ==
  IF bearings = << >> THEN << >>
  ELSE InsertSorted(SortAscending(SubSeq(bearings, 1, Len(bearings) - 1)),
                    bearings[Len(bearings)])

\* sorted.indexOf(o), counted from 0.
IndexOf(sorted, o) ==
  (CHOOSE i \in 1..Len(sorted) :
     sorted[i] = o /\ \A j \in 1..(i - 1) : sorted[j] # o) - 1

\* beadingRanks without the sort.
BeadingRanksUnsorted(bearings) ==
  [i \in 1..Len(bearings) |-> IndexOf(bearings, bearings[i])]

\* memo beadingRanks
BeadingRanksOf(bearings) ==
  LET sorted == SortAscending(bearings)
  IN  [i \in 1..Len(bearings) |-> IndexOf(sorted, bearings[i])]

\* buildings().filter(v => v.label !== 'yes')
RECURSIVE FilterNamed(_)
FilterNamed(list) ==
  IF list = << >> THEN << >>
  ELSE IF Head(list).label # Placeholder
    THEN << Head(list) >> \o FilterNamed(Tail(list))
  ELSE FilterNamed(Tail(list))

\* The index at which a marker of the <For> reads beadings() and
\* beadingRanks(): its index in the list the <For> iterates.
MarkerIndex(filteredIndex, list) == filteredIndex

\* The markers the <For> creates for a new building list, shown only while
\* coords is set and the list has buildings.  Each keeps the coordinate and
\* the bearing it read when it was created.
MarkersOf(list, origin, bearings) ==
  IF origin = None \/ list = << >> THEN << >>
  ELSE LET shown == FilterNamed(list)
       IN  [i \in 1..Len(shown) |->
              [building |-> shown[i],
               from |-> Get(origin),
               index |-> MarkerIndex(i, list),
               bearing |-> bearings[MarkerIndex(i, list)]]]

\* relative() of a cardinal marker.
relativeCardinal(angle, headingNow) ==
  LET headingValue == IF headingNow = None THEN 0 ELSE Get(headingNow)
      rawRelative == angle - headingValue
  IN  JsRem(rawRelative + 540, 360) - 180

\* relative() re-centred with +180 in place of +540.
relativeBuildingShortOffset(bearing, headingNow) ==
  LET headingValue == IF headingNow = None THEN 0 ELSE Get(headingNow)
      rawRelative == bearing - headingValue
  IN  JsRem(rawRelative + 180, 360) - 180

\* relative() of a building marker.
relativeBuilding(bearing, headingNow) ==
  LET headingValue == IF headingNow = None THEN 0 ELSE Get(headingNow)
      rawRelative == bearing - headingValue
  IN  JsRem(rawRelative + 540, 360) - 180

CardinalAngles == { 0, 45, 90, 135, 180, 225, 270, 315 }

\* The rank verticalOffset() reads for a marker, before "% 20".
MarkerRank(m) == beadingRanks[m.index]

\* ---------------------------------------------------------- location search
\* setBuildings(list): the memos and the markers follow.
SetBuildings(list, origin) ==
  /\ buildings' = list
  /\ beadings' = BeadingsOf(list, origin)
  /\ beadingRanks' = BeadingRanksOf(beadings')
  /\ markers' = MarkersOf(list, origin, beadings')

\* searchAround(lat, lng) up to its await: set coords, issue the fetch.  The
\* building list is the one the caller leaves in place.
searchAround(c, list) ==
  /\ coords' = Some(c)
  /\ fetches' = Append(fetches, c)
  /\ beadings' = BeadingsOf(list, Some(c))
  /\ beadingRanks' = BeadingRanksOf(beadings')

\* fallbackToDefault that reports the failure and searches nothing.
fallbackAborts(message, list) ==
  /\ error' = message
  /\ UNCHANGED << coords, fetches >>
  /\ beadings' = BeadingsOf(list, coords)
  /\ beadingRanks' = BeadingRanksOf(beadings')

\* fallbackToDefault(message)
fallbackToDefault(message, list) ==
  /\ error' = message
  /\ searchAround(fallbackCoords, list)

\* The search button is part of the view shown while there is nothing to
\* display.
SearchButtonShown == ~(coords # None /\ Len(buildings) > 0)

requestLocation ==
  /\ SearchButtonShown
  /\ buildings' = << >>
  /\ markers' = << >>
  /\ buildingsFrom' = None
  /\ hasSearched' = TRUE
  /\ IF ~env.geolocation
       THEN /\ fallbackToDefault("geolocation unsupported", << >>)
            /\ UNCHANGED geoPending
       ELSE /\ error' = ""
            /\ geoPending' = geoPending + 1
            /\ beadings' = << >>
            /\ beadingRanks' = << >>
            /\ UNCHANGED << coords, fetches >>
  /\ UNCHANGED << env, orientVars, probe >>

\* getCurrentPosition calls its success callback.
geoSuccess(position) ==
  /\ geoPending > 0
  /\ geoPending' = geoPending - 1
  /\ searchAround(position, buildings)
  /\ UNCHANGED << env, orientVars, error, buildings, hasSearched,
                  buildingsFrom, markers, probe >>

\* getCurrentPosition calls its error callback (failure or timeout).
geoError ==
  /\ geoPending > 0
  /\ geoPending' = geoPending - 1
  /\ fallbackToDefault("geolocation failed", buildings)
  /\ UNCHANGED << env, orientVars, buildings, hasSearched, buildingsFrom,
                  markers, probe >>

\* The i-th pending fetch answers with a building list.
fetchResolved(i, list) ==
  /\ i \in 1..Len(fetches)
  /\ fetches' = SubSeq(fetches, 1, i - 1) \o SubSeq(fetches, i + 1, Len(fetches))
  /\ SetBuildings(list, coords)
  /\ buildingsFrom' = Some(fetches[i])
  /\ UNCHANGED << env, orientVars, error, coords, hasSearched, geoPending, probe >>

\* The i-th pending fetch fails.
fetchRejected(i) ==
  /\ i \in 1..Len(fetches)
  /\ fetches' = SubSeq(fetches, 1, i - 1) \o SubSeq(fetches, i + 1, Len(fetches))
  /\ error' = "fetch failed"
  /\ UNCHANGED << env, orientVars, buildings, coords, hasSearched, geoPending,
                  buildingsFrom, beadings, beadingRanks, markers, probe >>

\* ------------------------------------------------------- relative angles
NoProbe == [bearing |-> 0, heading |-> None, building |-> None, cardinal |-> None]

\* Both relative() callbacks on one bearing and one heading.
applyRelative ==
  /\ probe.building = None
  /\ probe' = [probe EXCEPT
                 !.building = Some(relativeBuilding(probe.bearing, probe.heading)),
                 !.cardinal = Some([a \in CardinalAngles |->
                                      relativeCardinal(a, probe.heading)])]
  /\ UNCHANGED << env, budget, orientVars, searchVars >>

\* --------------------------------------------------------- specifications
Environments ==
  [orientation : BOOLEAN, needsPermission : BOOLEAN, geolocation : BOOLEAN]

NoBudget == [starts |-> 0, samples |-> 0, requests |-> 0, events |-> 0]

\* One more event of a kind the model counts.
Spend(kind) ==
  /\ budget[kind] > 0
  /\ budget' = [budget EXCEPT ![kind] = @ - 1]

InitState ==
  /\ orientationError = ""
  /\ orientationActive = FALSE
  /\ headingAnimationId = None
  /\ headingHistory = << >>
  /\ heading = None
  /\ rawHeading = None
  /\ pendingStarts = 0
  /\ runs = 0
  /\ listeners = {}
  /\ cleanups = {}
  /\ rafPending = {}
  /\ pushed = << >>
  /\ rawFresh = FALSE
  /\ error = ""
  /\ buildings = << >>
  /\ coords = None
  /\ hasSearched = FALSE
  /\ geoPending = 0
  /\ fetches = << >>
  /\ buildingsFrom = None
  /\ beadings = << >>
  /\ beadingRanks = << >>
  /\ markers = << >>

\* The whole view: every behaviour of at most MaxEvents events.
Init ==
  /\ env \in Environments
  /\ budget = [NoBudget EXCEPT !.events = MaxEvents]
  /\ InitState
  /\ probe = NoProbe

Next ==
  \/ startOrientation /\ Spend("events")
  \/ permissionGranted /\ Spend("events")
  \/ permissionDenied /\ Spend("events")
  \/ (\E event \in OrientationEvents : handleOrientation(event)) /\ Spend("events")
  \/ (\E run \in rafPending : updateHeading(run)) /\ Spend("events")
  \/ teardown /\ Spend("events")
  \/ requestLocation /\ Spend("events")
  \/ (\E position \in Positions : geoSuccess(position)) /\ Spend("events")
  \/ geoError /\ Spend("events")
  \/ (\E i \in 1..Len(fetches), list \in BuildingLists : fetchResolved(i, list))
       /\ Spend("events")
  \/ (\E i \in 1..Len(fetches) : fetchRejected(i)) /\ Spend("events")

Spec == Init /\ [][Next]_vars

\* The heading estimator alone, over many frames.
InitHeading ==
  /\ env \in { e \in Environments : e.geolocation }
  /\ budget = [NoBudget EXCEPT !.starts = MaxStarts, !.samples = MaxSamples]
  /\ InitState
  /\ probe = NoProbe

NextHeading ==
  \/ startOrientation /\ Spend("starts")
  \/ permissionGranted /\ UNCHANGED budget
  \/ permissionDenied /\ UNCHANGED budget
  \/ (\E event \in OrientationEvents : handleOrientation(event)) /\ Spend("samples")
  \/ (\E run \in rafPending : updateHeading(run))
       /\ Len(pushed) < MaxPushes /\ UNCHANGED budget
  \/ teardown /\ UNCHANGED budget

SpecHeading == InitHeading /\ [][NextHeading]_vars

\* The location search alone.
InitSearch ==
  /\ env \in { e \in Environments : e.orientation /\ ~e.needsPermission }
  /\ budget = [NoBudget EXCEPT !.requests = MaxRequests]
  /\ InitState
  /\ probe = NoProbe

NextSearch ==
  \/ requestLocation /\ Spend("requests")
  \/ (\E position \in Positions : geoSuccess(position)) /\ UNCHANGED budget
  \/ geoError /\ UNCHANGED budget
  \/ (\E i \in 1..Len(fetches), list \in BuildingLists : fetchResolved(i, list))
       /\ UNCHANGED budget
  \/ (\E i \in 1..Len(fetches) : fetchRejected(i)) /\ UNCHANGED budget

SpecSearch == InitSearch /\ [][NextSearch]_vars

\* The relative() callbacks on every bearing and every heading.
InitAngle ==
  /\ env = [orientation |-> TRUE, needsPermission |-> FALSE, geolocation |-> TRUE]
  /\ budget = NoBudget
  /\ InitState
  /\ probe \in [bearing : 0..359, heading : {None} \cup {Some(h) : h \in 0..359},
                building : {None}, cardinal : {None}]

NextAngle == applyRelative

SpecAngle == InitAngle /\ [][NextAngle]_vars

\* ------------------------------------------------------------ properties
InRange(x, lo, hi) == lo <= x /\ x <= hi

Range(seq) == { seq[i] : i \in 1..Len(seq) }

LastOf(seq, n) == SubSeq(seq, Len(seq) - n + 1, Len(seq))

Min(a, b) == IF a <= b THEN a ELSE b

HandleStep == \E event \in OrientationEvents : handleOrientation(event)

TickStep == \E run \in rafPending : updateHeading(run)

\* C1 (as stated): every relative angle, of a building marker and of the
\* eight cardinal markers, lies in (-180, 180], and bearing 0 under heading
\* 180 gives 180.
C1_RelativeInUpperClosedRange ==
  probe.building # None =>
    /\ InRange(Get(probe.building), -179, 180)
    /\ \A a \in CardinalAngles : InRange(Get(probe.cardinal)[a], -179, 180)
    /\ (probe.bearing = 0 /\ probe.heading = Some(180) => probe.building = Some(180))

\* C1 (amended): every relative angle, of a building marker and of the eight
\* cardinal markers, lies in [-180, 180) and differs from bearing - heading
\* by a multiple of 360 (a null heading counts as 0); bearing 0 under heading
\* 180 gives -180 and bearing 350 under heading 10 gives -20.
C1_RelativeInLowerClosedRange ==
  probe.building # None =>
    LET h == IF probe.heading = None THEN 0 ELSE Get(probe.heading)
    IN  /\ InRange(Get(probe.building), -180, 179)
        /\ (Get(probe.building) - (probe.bearing - h)) % 360 = 0
        /\ \A a \in CardinalAngles :
             /\ InRange(Get(probe.cardinal)[a], -180, 179)
             /\ (Get(probe.cardinal)[a] - (a - h)) % 360 = 0
        /\ (probe.bearing = 0 /\ h = 180 => probe.building = Some(-180))
        /\ (probe.bearing = 350 /\ h = 10 => probe.building = Some(-20))

\* C1 witness: bearing 0 under heading 180 was laid out at -180, the north
\* cardinal marker with it.
C1_Witness ==
  /\ probe.bearing = 0
  /\ probe.heading = Some(180)
  /\ probe.building = Some(-180)
  /\ Get(probe.cardinal)[0] = -180

\* C2 (as stated): delivering a raw sample leaves HeadingHistory and
\* SmoothedHeading unchanged.
C2_SampleLeavesHeading ==
  [][HandleStep => heading' = heading /\ headingHistory' = headingHistory]_vars

\* C2 (amended): delivering a raw sample leaves HeadingHistory unchanged and
\* writes SmoothedHeading only while it is null, setting it to the sample; so
\* SmoothedHeading is null exactly until the first raw sample arrives, and
\* from then on only ticks change it.
C2_SampleSetsOnlyNullHeading ==
  /\ [](heading = None <=> rawHeading = None)
  /\ [][\A event \in OrientationEvents :
          handleOrientation(event) =>
            /\ headingHistory' = headingHistory
            /\ heading' = IF heading = None /\ OrientationValue(event) # None
                            THEN OrientationValue(event) ELSE heading]_vars
  /\ [][heading' # heading => TickStep \/ (heading = None /\ HandleStep)]_vars

\* C2 witness: the second sample has arrived before any tick; the heading is
\* still the first sample and the history is empty.
C2_Witness ==
  /\ rawHeading # None
  /\ heading # None
  /\ heading # rawHeading
  /\ headingHistory = << >>
  /\ pushed = << >>
  /\ runs = 1

\* C3: HeadingHistory holds at most 12 entries: in order, the most recent
\* min(k, 12) of the k values the ticks pushed since the last start; and a
\* tick that finds a raw value adds exactly one entry, that value, at the
\* end, evicting the oldest entry when the history is full.
C3_HistoryIsRecentPushes ==
  /\ [](/\ Len(headingHistory) <= headingHistorySize
        /\ headingHistory = LastOf(pushed, Min(Len(pushed), headingHistorySize)))
  /\ [][TickStep /\ rawHeading # None =>
          /\ Len(headingHistory') = Min(Len(headingHistory) + 1, headingHistorySize)
          /\ headingHistory'[Len(headingHistory')] = Get(rawHeading)
          /\ \A i \in 1..(Len(headingHistory') - 1) :
               headingHistory'[i] =
                 headingHistory[i + Len(headingHistory) + 1 - Len(headingHistory')]]_vars

\* C3 witness: thirteen values were pushed and the first of them, which
\* differs from the later ones, is no longer in the history.
C3_Witness ==
  /\ Len(pushed) = headingHistorySize + 1
  /\ Len(headingHistory) = headingHistorySize
  /\ pushed[1] \notin Range(headingHistory)

\* C4 (as stated): a start that follows a stop begins with an empty history
\* and a null SmoothedHeading, and no tick pushes a value unless a sample has
\* arrived since the history was last cleared.
C4_RestartBeginsEmpty ==
  [][/\ (runs > 0 /\ ~orientationActive /\ orientationActive' =>
           headingHistory' = << >> /\ heading' = None)
     /\ (Len(pushed') > Len(pushed) => rawFresh)]_vars

\* C5 (as stated): while tracking is active exactly one listener is
\* registered and exactly one recomputation callback is scheduled; while it
\* is not, none is.
C5_OneListenerOneCallback ==
  /\ orientationActive => Cardinality(listeners) = 1 /\ Cardinality(rafPending) = 1
  /\ ~orientationActive => listeners = {} /\ rafPending = {}

BearingsDistinct ==
  /\ \A i \in 1..Len(beadings) : beadings[i] # None
  /\ \A i, j \in 1..Len(beadings) : i # j => beadings[i] # beadings[j]

\* C6: when the bearings are pairwise distinct, the ranks are a permutation
\* of 0..N-1 in the order of the bearings; and no step that changes the
\* heading changes a rank.
C6_RanksArePermutation ==
  /\ [](BearingsDistinct =>
          /\ Len(beadingRanks) = Len(buildings)
          /\ Len(beadings) = Len(buildings)
          /\ Range(beadingRanks) = 0..(Len(buildings) - 1)
          /\ \A i, j \in 1..Len(beadings) :
               Get(beadings[i]) < Get(beadings[j]) <=> beadingRanks[i] < beadingRanks[j])
  /\ [][heading' # heading => beadingRanks' = beadingRanks]_vars

\* C6 witness: two buildings one degree apart have the ranks 1 and 0, under
\* a heading that has been set.
C6_Witness ==
  /\ heading # None
  /\ Len(buildings) = 2
  /\ BearingsDistinct
  /\ Get(beadings[1]) = Get(beadings[2]) + 1
  /\ beadingRanks = << 1, 0 >>

\* A start that fails: the sensor is unsupported, or consent is denied.
FailedStartStep == (~env.orientation /\ startOrientation) \/ permissionDenied

\* C7: a start that fails sets the orientation error flag and changes
\* nothing else: not the estimator's state (active flag, listeners, scheduled
\* callbacks, history, heading) and not the location search's.
C7_FailedStartOnlyFlags ==
  [][FailedStartStep =>
       /\ orientationError' \in { "unsupported", "denied" }
       /\ UNCHANGED << orientationActive, listeners, rafPending, cleanups,
                       headingAnimationId, headingHistory, heading, rawHeading >>
       /\ UNCHANGED searchVars]_vars

\* C7 witness: the estimator is idle with its error flag set, and a search
\* has been completed.
C7_Witness ==
  /\ orientationError \in { "unsupported", "denied" }
  /\ ~orientationActive
  /\ listeners = {}
  /\ rafPending = {}
  /\ buildingsFrom # None
  /\ Len(buildings) > 0

\* A location request that ends in failure, timeout or missing support.
LocationFailureStep == geoError \/ (~env.geolocation /\ requestLocation)

\* C8: a location request that fails sets the coordinate to the fallback
\* coordinate, issues exactly one fetch, for that coordinate, and stores the
\* failure reason in the error; every fetch is issued for the coordinate that
\* is set in the same step.
C8_FailureFallsBack ==
  /\ [][LocationFailureStep =>
          /\ coords' = Some(fallbackCoords)
          /\ fetches' = Append(fetches, fallbackCoords)
          /\ error' \in { "geolocation failed", "geolocation unsupported" }]_vars
  /\ [][Len(fetches') > Len(fetches) =>
          /\ Len(fetches') = Len(fetches) + 1
          /\ coords' = Some(fetches'[Len(fetches')])]_vars
  /\ [](fetches # << >> => coords # None)

\* C8 witness: after a geolocation failure the buildings around the fallback
\* coordinate are shown, with the reason still in the error.
C8_Witness ==
  /\ error \in { "geolocation failed", "geolocation unsupported" }
  /\ coords = Some(fallbackCoords)
  /\ buildingsFrom = Some(fallbackCoords)
  /\ Len(buildings) > 0

\* The component of the summed direction of the history along d degrees.
Along(history, d) == CosSum(history) * Cos(d) + SinSum(history) * Sin(d)

\* What the sine table's rounding can add to Along.
Slack(history) == Abs(CosSum(history)) + Abs(SinSum(history))

\* C9: with a non-empty history, SmoothedHeading lies in [0, 360) and, unless
\* the samples cancel, is the whole degree along which the summed direction
\* of the samples is largest; the history [350, 10] gives 0.
C9_HeadingIsCircularMean ==
  Len(headingHistory) > 0 =>
    /\ heading # None
    /\ InRange(Get(heading), 0, 359)
    /\ (CosSum(headingHistory) # 0 \/ SinSum(headingHistory) # 0 =>
          LET h == Get(heading)
              here == Along(headingHistory, h)
          IN  /\ here > 0
              /\ here + Slack(headingHistory) >= Along(headingHistory, h + 1)
              /\ here + Slack(headingHistory) >= Along(headingHistory, h - 1))
    /\ (headingHistory = << 350, 10 >> => heading = Some(0))

\* C9 witness: the history is [350, 10] and the heading is 0.
C9_Witness == headingHistory = << 350, 10 >> /\ heading = Some(0)

\* The index of a marker's own building in the building list.
OwnIndex(m) == CHOOSE i \in 1..Len(buildings) : buildings[i].id = m.building.id

\* C10 (as stated): every marker is placed with the bearing and the rank of
\* its own building.
C10_MarkerUsesOwnBuilding ==
  \A k \in 1..Len(markers) :
    LET m == markers[k]
    IN  /\ m.bearing = Some(bearingBetween(m.from, [lat |-> m.building.lat,
                                                    lng |-> m.building.lng]))
        /\ MarkerRank(m) = beadingRanks[OwnIndex(m)]

\* No location request is in flight: no geolocation call and no fetch is
\* waiting for its answer.
SearchQuiet == geoPending = 0 /\ fetches = << >>

\* C11 (as stated): once no request is in flight, the building list on
\* display is the answer to the fetch that was issued for the coordinate now
\* stored in coords.
C11_ShownBuildingsMatchCoords ==
  SearchQuiet /\ buildingsFrom # None => buildingsFrom = coords

====
